---- MODULE Spec2Model ----
(***************************************************************************)
(* The Snake game of python-pi5/games/snake: the GameState class           *)
(* (game_state.py), the calls made on it, the driving loop (main.py), the  *)
(* joystick input (input_handler.py) and the score scroller (renderer.py). *)
(*                                                                         *)
(* game_state     the fields of the one GameState object of a round        *)
(* last           the last method call made on the object: its name, the   *)
(*                direction argument the caller passed (or "absent"), and  *)
(*                whether the call raised an exception                     *)
(* ticks          how many times the body of move_snake has run            *)
(* loop           main.py: where game_loop/_play_game stands and the       *)
(*                direction it polled last                                 *)
(* input_handler  input_handler.py: the locals of the running              *)
(*                get_direction / poll_for_direction_input call            *)
(* renderer       renderer.py: what the matrix shows and the locals of the *)
(*                running _show_scrolling_score / _wait_or_stop call       *)
(*                                                                         *)
(* Durations are in milliseconds and joystick readings in hundredths of    *)
(* the 0.0 .. 1.0 range of MCP3008.value.                                  *)
(***************************************************************************)
EXTENDS Integers, Sequences, FiniteSets, TLC

VARIABLES game_state, last, ticks, loop, input_handler, renderer

vars == <<game_state, last, ticks, loop, input_handler, renderer>>

(* ---------------------------- bounds ----------------------------------- *)

\* move_snake runs at most this many times in a behaviour
MaxTicks == 4

\* the longest polling window tried, in poll intervals
MaxPollIntervals == 10

\* the widest score message tried, in pixels
MaxMessageWidth == 3

\* should_stop is polled at most this many times during one scrolling score
MaxPolls == 6

\* the widest and the tallest rectangle a spiral is generated for
MaxSide == 8

(* ------------------------- program constants --------------------------- *)

\* GameState.grid_size
grid_size == 8

\* config.INITIAL_SNAKE_LENGTH, the length of the body __init__ builds
INITIAL_SNAKE_LENGTH == 3

\* config.INPUT_POLL_INTERVAL = 0.05 s, in milliseconds
INPUT_POLL_INTERVAL == 50

\* InputHandler.get_direction: threshold = 0.1 and mid = 0.5, in hundredths
threshold == 10

mid == 50

(* ---------------------------- direction.py ----------------------------- *)

Direction == {"UP", "DOWN", "LEFT", "RIGHT", "NONE"}

RealDirection == Direction \ {"NONE"}

(* ---------------------------- helpers ---------------------------------- *)

Range(q) == {q[i] : i \in 1..Len(q)}

\* deque.appendleft / deque.pop
appendleft(q, e) == <<e>> \o q

pop(q) == SubSeq(q, 1, Len(q) - 1)

\* the cells randint(0, grid_size - 1) x randint(0, grid_size - 1) can draw
Cells == (0..(grid_size - 1)) \X (0..(grid_size - 1))

(* ---------------------------- game_state.py ---------------------------- *)

\* spawn_food: draws cells until one is not in snake_positions; `cell` is
\* the draw that ends the loop
FreeCells_mut_tail(s) == Cells \ Range(Tail(s.snake_positions))

FreeCells(s) == Cells \ Range(s.snake_positions)

spawn_food(s, cell) == [s EXCEPT !.food_position = cell]

\* __init__ : food_eaten is a class attribute (False) that __init__ never
\* assigns, so a re-initialised object keeps the value it had (`eaten`).
GameState_init_mut_body(eaten, cell) ==
    LET s0 == [snake_positions |-> << <<4, 6>>, <<4, 5>>, <<4, 4>> >>,
               direction       |-> "UP",
               food_position   |-> <<0, 0>>,
               score           |-> 0,
               game_over       |-> FALSE,
               food_eaten      |-> eaten]
    IN  spawn_food(s0, cell)

GameState_init(eaten, cell) ==
    LET s0 == [snake_positions |-> << <<4, 4>>, <<4, 5>>, <<4, 6>> >>,
               direction       |-> "UP",
               food_position   |-> <<0, 0>>,
               score           |-> 0,
               game_over       |-> FALSE,
               food_eaten      |-> eaten]
    IN  spawn_food(s0, cell)

InitialFreeCells == Cells \ {<<4, 4>>, <<4, 5>>, <<4, 6>>}

\* check_collision: only ever sets game_over, and only on self collision
check_collision_mut_assign(s) ==
    [s EXCEPT !.game_over = (Head(s.snake_positions) \in Range(Tail(s.snake_positions)))]

check_collision_mut_wall(s) ==
    LET h == Head(s.snake_positions)
    IN  IF \/ h \in Range(Tail(s.snake_positions))
           \/ h \notin Cells
        THEN [s EXCEPT !.game_over = TRUE]
        ELSE s

check_collision_mut_skip(s) ==
    IF Head(s.snake_positions) \in Range(pop(Tail(s.snake_positions)))
    THEN [s EXCEPT !.game_over = TRUE]
    ELSE s

check_collision(s) ==
    IF Head(s.snake_positions) \in Range(Tail(s.snake_positions))
    THEN [s EXCEPT !.game_over = TRUE]
    ELSE s

check_food_collision_mut_x(s) ==
    /\ Head(s.snake_positions)[1] = s.food_position[1]
    /\ Head(s.snake_positions)[1] = s.food_position[1]

check_food_collision(s) ==
    /\ Head(s.snake_positions)[1] = s.food_position[1]
    /\ Head(s.snake_positions)[2] = s.food_position[2]

eat_food_mut_score(s, cell) ==
    spawn_food([s EXCEPT !.score = @ + 2, !.food_eaten = TRUE], cell)

eat_food(s, cell) ==
    spawn_food([s EXCEPT !.score = @ + 1, !.food_eaten = TRUE], cell)

\* move_snake, lines 56-66: the cell the head moves to
new_head_mut_right(s) ==
    LET h == Head(s.snake_positions)
    IN  CASE s.direction = "UP"    -> <<h[1], h[2] - 1>>
          [] s.direction = "DOWN"  -> <<h[1], h[2] + 1>>
          [] s.direction = "LEFT"  -> <<h[1] - 1, h[2]>>
          [] s.direction = "RIGHT" -> <<h[1] + 2, h[2]>>
          [] OTHER                 -> h

new_head(s) ==
    LET h == Head(s.snake_positions)
    IN  CASE s.direction = "UP"    -> <<h[1], h[2] - 1>>
          [] s.direction = "DOWN"  -> <<h[1], h[2] + 1>>
          [] s.direction = "LEFT"  -> <<h[1] - 1, h[2]>>
          [] s.direction = "RIGHT" -> <<h[1] + 1, h[2]>>
          [] OTHER                 -> h

\* move_snake, line 68
prepend_head(s) ==
    [s EXCEPT !.snake_positions = appendleft(@, new_head(s))]

\* move_snake, lines 70-77: `cell` is used only when food is eaten
move_snake_body_mut_keepfood(s, cell) ==
    LET s1 == prepend_head(s)
        s2 == IF check_food_collision(s1)
              THEN [s1 EXCEPT !.score = @ + 1, !.food_eaten = TRUE]
              ELSE IF ~s1.food_eaten
                   THEN [s1 EXCEPT !.snake_positions = pop(@)]
                   ELSE [s1 EXCEPT !.food_eaten = FALSE]
    IN  check_collision(s2)

move_snake_body(s, cell) ==
    LET s1 == prepend_head(s)
        s2 == IF check_food_collision(s1)
              THEN eat_food(s1, cell)
              ELSE IF ~s1.food_eaten
                   THEN [s1 EXCEPT !.snake_positions = pop(@)]
                   ELSE [s1 EXCEPT !.food_eaten = FALSE]
    IN  check_collision(s2)

\* does the tick from s eat the food?
Eats(s) == check_food_collision(prepend_head(s))

(* --------------------- components that are not running ----------------- *)

\* no GameState object exists yet
NoGameState ==
    [snake_positions |-> <<>>, direction |-> "NONE", food_position |-> <<0, 0>>,
     score |-> 0, game_over |-> FALSE, food_eaten |-> FALSE]

\* game_loop is not running
IdleLoop == [pc |-> "idle", direction |-> "NONE"]

\* no InputHandler call is running
IdleInput ==
    [pc |-> "idle", x |-> 50, y |-> 50, direction |-> "NONE", timeout |-> 0,
     elapsed_time |-> 0, last_direction |-> "NONE", samples |-> <<>>,
     result |-> "NONE"]

\* no spiral is being generated
IdleSpiral ==
    [pc |-> "idle", width |-> 0, height |-> 0, top |-> 0, bottom |-> 0,
     left |-> 0, right |-> 0, coords |-> <<>>, reversed |-> <<>>]

\* play_intro_animation_loop is not running
IdleIntro ==
    [pc |-> "idle", interval |-> 0, face |-> 1, elapsed |-> 0,
     polls |-> <<>>, should_start_game |-> FALSE, lit_pixels |-> 0]

\* no Renderer call is running, the matrix is blank
IdleRenderer ==
    [pc |-> "idle", display |-> "blank", message_width |-> 0,
     scroll_speed |-> 0, offset |-> 0, position |-> 0, elapsed |-> 0,
     polls |-> <<>>, wait_start |-> 0, wait_result |-> FALSE,
     spiral |-> IdleSpiral, intro |-> IdleIntro]

(* ---------------------------- operations ------------------------------- *)

Init ==
    /\ \E cell \in InitialFreeCells : game_state = GameState_init(FALSE, cell)
    /\ last = [op |-> "init", arg |-> "absent", raised |-> FALSE]
    /\ ticks = 0
    /\ loop = IdleLoop
    /\ input_handler = IdleInput
    /\ renderer = IdleRenderer

\* game_state.move_snake() : the method as it is defined, without argument
move_snake ==
    /\ ticks < MaxTicks
    /\ IF Eats(game_state)
       THEN \E cell \in FreeCells(prepend_head(game_state)) :
                game_state' = move_snake_body(game_state, cell)
       ELSE game_state' = move_snake_body(game_state, game_state.food_position)
    /\ last' = [op |-> "move_snake", arg |-> "absent", raised |-> FALSE]
    /\ ticks' = ticks + 1
    /\ UNCHANGED <<loop, input_handler, renderer>>

\* game_state.move_snake(direction) : the call main._play_game makes each
\* tick.  move_snake takes no parameter besides self, so the call raises
\* TypeError before any statement of the method runs.
move_snake_with_direction ==
    \E d \in Direction :
        /\ last' = [op |-> "move_snake", arg |-> d, raised |-> TRUE]
        /\ UNCHANGED <<game_state, ticks, loop, input_handler, renderer>>

\* reset() : runs __init__ again on the same object
reset ==
    /\ \E cell \in InitialFreeCells :
           game_state' = GameState_init(game_state.food_eaten, cell)
    /\ last' = [op |-> "reset", arg |-> "absent", raised |-> FALSE]
    /\ UNCHANGED <<ticks, loop, input_handler, renderer>>

\* game_state.direction = d : GameState is a dataclass with public fields and
\* no method of the class writes direction after __init__; a caller that
\* steers the snake has to store the direction itself.  It stores the real
\* directions only: a polled NONE means "keep the heading".
assign_direction ==
    \E d \in RealDirection :
        /\ game_state' = [game_state EXCEPT !.direction = d]
        /\ UNCHANGED <<last, ticks, loop, input_handler, renderer>>

\* The object driven through its methods, as main._play_game drives it.
Next == move_snake \/ move_snake_with_direction \/ reset

Spec == Init /\ [][Next]_vars

\* The object driven by a caller that stores the direction in the field
\* before each parameterless move_snake().
NextSteered == assign_direction \/ move_snake

SpecSteered == Init /\ [][NextSteered]_vars

\* One play of the game, for as long as it takes to fill the board: the
\* caller steers the head along FillPath (the 61 cells the initial body leaves
\* free, each next to the one before) and every draw of spawn_food that ends
\* its loop lands on the next cell of the path, so every tick eats.
FillPath ==
    <<
       <<4, 3>>, <<4, 2>>, <<4, 1>>, <<4, 0>>, <<3, 0>>, <<3, 1>>,
       <<3, 2>>, <<3, 3>>, <<3, 4>>, <<3, 5>>, <<3, 6>>, <<2, 6>>,
       <<2, 5>>, <<2, 4>>, <<2, 3>>, <<2, 2>>, <<2, 1>>, <<2, 0>>,
       <<1, 0>>, <<0, 0>>, <<0, 1>>, <<1, 1>>, <<1, 2>>, <<0, 2>>,
       <<0, 3>>, <<1, 3>>, <<1, 4>>, <<0, 4>>, <<0, 5>>, <<1, 5>>,
       <<1, 6>>, <<0, 6>>, <<0, 7>>, <<1, 7>>, <<2, 7>>, <<3, 7>>,
       <<4, 7>>, <<5, 7>>, <<5, 6>>, <<5, 5>>, <<5, 4>>, <<5, 3>>,
       <<5, 2>>, <<5, 1>>, <<5, 0>>, <<6, 0>>, <<7, 0>>, <<7, 1>>,
       <<6, 1>>, <<6, 2>>, <<7, 2>>, <<7, 3>>, <<6, 3>>, <<6, 4>>,
       <<7, 4>>, <<7, 5>>, <<6, 5>>, <<6, 6>>, <<6, 7>>, <<7, 7>>,
       <<7, 6>>
    >>

\* move_snake() in that play.  spawn_food returns only with a cell that is
\* not in snake_positions: when none is left its loop draws forever and the
\* call never returns, so the step does not exist.
move_snake_fill ==
    /\ ticks < Len(FillPath)
    /\ game_state.food_position = FillPath[ticks + 1]
    /\ new_head(game_state) = FillPath[ticks + 1]
    /\ Eats(game_state)
    /\ \E cell \in FreeCells(prepend_head(game_state)) :
           /\ cell = FillPath[ticks + 2]
           /\ game_state' = move_snake_body(game_state, cell)
    /\ last' = [op |-> "move_snake", arg |-> "absent", raised |-> FALSE]
    /\ ticks' = ticks + 1
    /\ UNCHANGED <<loop, input_handler, renderer>>

NextFill == assign_direction \/ move_snake_fill

SpecFill == Init /\ [][NextFill]_vars

(* ------------------------------- main.py ------------------------------- *)

\* game_loop has built its InputHandler and Renderer and enters the intro
InitMain ==
    /\ game_state = NoGameState
    /\ last = [op |-> "none", arg |-> "absent", raised |-> FALSE]
    /\ ticks = 0
    /\ loop = [pc |-> "intro", direction |-> "NONE"]
    /\ input_handler = IdleInput
    /\ renderer = IdleRenderer

\* play_intro_animation_loop: a face is drawn and the button is not pressed
\* during the wait that follows
intro_face ==
    /\ loop.pc = "intro"
    /\ renderer' = [renderer EXCEPT !.display = "face"]
    /\ UNCHANGED <<game_state, last, ticks, loop, input_handler>>

\* play_intro_animation_loop: the button is pressed while a face is shown;
\* the spiral fade-out ends with clear() and _play_game is entered
intro_stop ==
    /\ loop.pc = "intro"
    /\ renderer.display = "face"
    /\ renderer' = [renderer EXCEPT !.display = "blank"]
    /\ loop' = [loop EXCEPT !.pc = "play_game"]
    /\ UNCHANGED <<game_state, last, ticks, input_handler>>

\* _play_game, line 30: game_state = GameState(), a new object, whose
\* food_eaten is the class attribute False
play_game_construct ==
    /\ loop.pc = "play_game"
    /\ \E cell \in InitialFreeCells : game_state' = GameState_init(FALSE, cell)
    /\ last' = [op |-> "init", arg |-> "absent", raised |-> FALSE]
    /\ loop' = [loop EXCEPT !.pc = "first_frame"]
    /\ UNCHANGED <<ticks, input_handler, renderer>>

\* _play_game, line 32: the frame drawn before the first tick
draw_first_frame ==
    /\ loop.pc = "first_frame"
    /\ renderer' = [renderer EXCEPT !.display = "frame"]
    /\ loop' = [loop EXCEPT !.pc = "loop_test"]
    /\ UNCHANGED <<game_state, last, ticks, input_handler>>

\* _play_game, line 35: while not game_state.game_over
loop_test ==
    /\ loop.pc = "loop_test"
    /\ loop' = [loop EXCEPT !.pc = IF game_state.game_over THEN "return" ELSE "poll"]
    /\ UNCHANGED <<game_state, last, ticks, input_handler, renderer>>

\* _play_game, line 36: poll_for_direction_input returns some direction
poll_direction ==
    /\ loop.pc = "poll"
    /\ \E d \in Direction : loop' = [pc |-> "move", direction |-> d]
    /\ UNCHANGED <<game_state, last, ticks, input_handler, renderer>>

\* _play_game, line 39: game_state.move_snake(direction) raises TypeError
\* (move_snake takes no direction).  Nothing catches it: game_loop's only
\* handler is for KeyboardInterrupt, so the exception ends the program.
call_move_snake ==
    /\ loop.pc = "move"
    /\ last' = [op |-> "move_snake", arg |-> loop.direction, raised |-> TRUE]
    /\ loop' = [loop EXCEPT !.pc = "crashed"]
    /\ UNCHANGED <<game_state, ticks, input_handler, renderer>>

NextMain ==
    \/ intro_face
    \/ intro_stop
    \/ play_game_construct
    \/ draw_first_frame
    \/ loop_test
    \/ poll_direction
    \/ call_move_snake

SpecMain == InitMain /\ [][NextMain]_vars

(* --------------------------- input_handler.py -------------------------- *)

\* the values joystick_x.value and joystick_y.value can have, in hundredths
Readings == 0..100

\* the (x, y) readings tried while polling: stick left, stick down, centred
PolledReadings == {<<0, 50>>, <<50, 100>>, <<50, 50>>}

\* get_direction: x is tested before y
get_direction_mut_yfirst(x, y) ==
    IF y < mid - threshold THEN "UP"
    ELSE IF y > mid + threshold THEN "DOWN"
    ELSE IF x < mid - threshold THEN "LEFT"
    ELSE IF x > mid + threshold THEN "RIGHT"
    ELSE "NONE"

get_direction(x, y) ==
    IF x < mid - threshold THEN "LEFT"
    ELSE IF x > mid + threshold THEN "RIGHT"
    ELSE IF y < mid - threshold THEN "UP"
    ELSE IF y > mid + threshold THEN "DOWN"
    ELSE "NONE"

\* `elapsed < duration` in the two waiting loops (poll_for_direction_input and
\* Renderer._wait_or_stop), where elapsed is a float that grew by 0.05 once
\* per round.  The sum of n such additions is below the double n * 0.05 for
\* n = 8, 9, 10, 11 (0.39999999999999997, ..., 0.5499999999999999), so for
\* these n the loop runs once more; for every other n up to 13 the sum is the
\* double n * 0.05 or just above it.
FloatSumBelow == {8, 9, 10, 11}

still_waiting(elapsed, duration) ==
    \/ elapsed < duration
    \/ elapsed = duration /\ (elapsed \div INPUT_POLL_INTERVAL) \in FloatSumBelow

\* poll_for_direction_input, lines 57-58
update_last_direction_mut_erase(last_direction, direction) == direction

update_last_direction(last_direction, direction) ==
    IF direction # "NONE" THEN direction ELSE last_direction

\* the timeouts tried: every quarter of a tenth of a second up to the bound
PollTimeouts == {25 * k : k \in 1..(2 * MaxPollIntervals)}

\* an InputHandler or a Renderer on its own: no round is being played
InitIdle ==
    /\ game_state = NoGameState
    /\ last = [op |-> "none", arg |-> "absent", raised |-> FALSE]
    /\ ticks = 0
    /\ loop = IdleLoop
    /\ input_handler = IdleInput
    /\ renderer = IdleRenderer

\* a caller reads the joystick once: get_direction()
get_direction_call ==
    /\ input_handler.pc = "idle"
    /\ \E x \in Readings, y \in Readings :
           input_handler' = [input_handler EXCEPT
                                !.pc = "get_direction_returned",
                                !.x = x, !.y = y,
                                !.direction = get_direction(x, y)]
    /\ UNCHANGED <<game_state, last, ticks, loop, renderer>>

\* poll_for_direction_input(timeout), lines 53-54
poll_begin ==
    /\ input_handler.pc = "idle"
    /\ \E t \in PollTimeouts :
           input_handler' = [input_handler EXCEPT
                                !.pc = "poll_test", !.timeout = t,
                                !.elapsed_time = 0, !.last_direction = "NONE",
                                !.samples = <<>>]
    /\ UNCHANGED <<game_state, last, ticks, loop, renderer>>

\* poll_for_direction_input, lines 55-60: one round of the loop
poll_sample ==
    /\ input_handler.pc = "poll_test"
    /\ still_waiting(input_handler.elapsed_time, input_handler.timeout)
    /\ \E r \in PolledReadings :
           input_handler' = [input_handler EXCEPT
                                !.x = r[1], !.y = r[2],
                                !.direction = get_direction(r[1], r[2]),
                                !.last_direction =
                                    update_last_direction(@, get_direction(r[1], r[2])),
                                !.samples = Append(@, get_direction(r[1], r[2])),
                                !.elapsed_time = @ + INPUT_POLL_INTERVAL]
    /\ UNCHANGED <<game_state, last, ticks, loop, renderer>>

\* poll_for_direction_input, lines 55 and 61: the window is over
poll_return ==
    /\ input_handler.pc = "poll_test"
    /\ ~still_waiting(input_handler.elapsed_time, input_handler.timeout)
    /\ input_handler' = [input_handler EXCEPT
                            !.pc = "poll_returned",
                            !.result = input_handler.last_direction]
    /\ UNCHANGED <<game_state, last, ticks, loop, renderer>>

NextInput == get_direction_call \/ poll_begin \/ poll_sample \/ poll_return

SpecInput == InitIdle /\ [][NextInput]_vars

(* ------------------------------ renderer.py ----------------------------- *)

\* config.SCROLL_SPEED, seconds per pixel, in milliseconds.  renderer.py
\* imports the name but config.py does not define it; the values tried make
\* one wait last one, two and three polls.
ScrollSpeeds == {50, 100, 125}

\* _show_scrolling_score, lines 210-212
advance_offset(offset, message_width) ==
    IF offset + 1 >= message_width THEN 0 ELSE offset + 1

\* _show_scrolling_score, lines 185-204: the message is drawn, offset = 0
scroll_begin ==
    /\ renderer.pc = "idle"
    /\ \E w \in 1..MaxMessageWidth, speed \in ScrollSpeeds :
           renderer' = [renderer EXCEPT
                           !.pc = "set_position", !.display = "score",
                           !.message_width = w, !.scroll_speed = speed,
                           !.offset = 0, !.polls = <<>>]
    /\ UNCHANGED <<game_state, last, ticks, loop, input_handler>>

\* _show_scrolling_score, lines 206-207, and _wait_or_stop, lines 219-220:
\* the viewport moves to the offset and a wait of scroll_speed begins
scroll_set_position ==
    /\ renderer.pc = "set_position"
    /\ renderer' = [renderer EXCEPT
                       !.pc = "wait_test", !.position = renderer.offset,
                       !.elapsed = 0, !.wait_start = Len(renderer.polls)]
    /\ UNCHANGED <<game_state, last, ticks, loop, input_handler>>

\* _wait_or_stop, lines 221-225: one round of the loop, should_stop() is
\* called and answers b
wait_poll ==
    /\ renderer.pc = "wait_test"
    /\ still_waiting(renderer.elapsed, renderer.scroll_speed)
    /\ Len(renderer.polls) < MaxPolls
    /\ \E b \in BOOLEAN :
           renderer' = [renderer EXCEPT
                           !.polls = Append(@, b),
                           !.pc = IF b THEN "after_wait" ELSE @,
                           !.wait_result = IF b THEN TRUE ELSE @,
                           !.elapsed = IF b THEN @ ELSE @ + INPUT_POLL_INTERVAL]
    /\ UNCHANGED <<game_state, last, ticks, loop, input_handler>>

\* _wait_or_stop, lines 221 and 226: the duration is over
wait_timeout ==
    /\ renderer.pc = "wait_test"
    /\ ~still_waiting(renderer.elapsed, renderer.scroll_speed)
    /\ renderer' = [renderer EXCEPT !.pc = "after_wait", !.wait_result = FALSE]
    /\ UNCHANGED <<game_state, last, ticks, loop, input_handler>>

\* _show_scrolling_score, lines 207-212
scroll_after_wait_mut_advance ==
    /\ renderer.pc = "after_wait"
    /\ renderer' = [renderer EXCEPT
                       !.pc = IF renderer.wait_result
                              THEN "scroll_returned" ELSE "set_position",
                       !.offset = advance_offset(@, renderer.message_width)]
    /\ UNCHANGED <<game_state, last, ticks, loop, input_handler>>

scroll_after_wait ==
    /\ renderer.pc = "after_wait"
    /\ renderer' = [renderer EXCEPT
                       !.pc = IF renderer.wait_result
                              THEN "scroll_returned" ELSE "set_position",
                       !.offset = IF renderer.wait_result
                                  THEN @
                                  ELSE advance_offset(@, renderer.message_width)]
    /\ UNCHANGED <<game_state, last, ticks, loop, input_handler>>

NextScroll ==
    \/ scroll_begin
    \/ scroll_set_position
    \/ wait_poll
    \/ wait_timeout
    \/ scroll_after_wait

SpecScroll == InitIdle /\ [][NextScroll]_vars

(* ---------------------- renderer.py: the spirals ----------------------- *)

\* range(a, b + 1): a, a + 1, ..., b (empty when b < a)
RangeUp(a, b) == [i \in 1..(IF b >= a THEN b - a + 1 ELSE 0) |-> a + i - 1]

\* range(a, b - 1, -1): a, a - 1, ..., b (empty when a < b)
RangeDown(a, b) == [i \in 1..(IF a >= b THEN a - b + 1 ELSE 0) |-> a - i + 1]

\* the cells (x, y) for x along xs, and (x, y) for y along ys
AlongRow(xs, y) == [i \in 1..Len(xs) |-> <<xs[i], y>>]

AlongColumn(x, ys) == [i \in 1..Len(ys) |-> <<x, ys[i]>>]

\* list(reversed(q))
reversed(q) == [i \in 1..Len(q) |-> q[Len(q) + 1 - i]]

\* _generate_spiral_coords_outside_in(width, height), lines 237-238
spiral_begin ==
    /\ renderer.spiral.pc = "idle"
    /\ \E width \in 1..MaxSide, height \in 1..MaxSide :
           renderer' = [renderer EXCEPT !.spiral =
                           [pc |-> "while", width |-> width, height |-> height,
                            top |-> 0, bottom |-> height - 1,
                            left |-> 0, right |-> width - 1,
                            coords |-> <<>>, reversed |-> <<>>]]
    /\ UNCHANGED <<game_state, last, ticks, loop, input_handler>>

\* line 240: the loop test; line 263: return coords
spiral_while ==
    /\ renderer.spiral.pc = "while"
    /\ renderer' = [renderer EXCEPT !.spiral.pc =
                       IF /\ renderer.spiral.top <= renderer.spiral.bottom
                          /\ renderer.spiral.left <= renderer.spiral.right
                       THEN "top_row"
                       ELSE "outside_in_returned"]
    /\ UNCHANGED <<game_state, last, ticks, loop, input_handler>>

\* lines 241-244
spiral_top_row ==
    /\ renderer.spiral.pc = "top_row"
    /\ LET sp == renderer.spiral
       IN  renderer' = [renderer EXCEPT !.spiral =
               [sp EXCEPT !.coords = @ \o AlongRow(RangeUp(sp.left, sp.right), sp.top),
                          !.top = @ + 1,
                          !.pc = "right_column"]]
    /\ UNCHANGED <<game_state, last, ticks, loop, input_handler>>

\* lines 246-249
spiral_right_column ==
    /\ renderer.spiral.pc = "right_column"
    /\ LET sp == renderer.spiral
       IN  renderer' = [renderer EXCEPT !.spiral =
               [sp EXCEPT !.coords = @ \o AlongColumn(sp.right, RangeUp(sp.top, sp.bottom)),
                          !.right = @ - 1,
                          !.pc = "bottom_row"]]
    /\ UNCHANGED <<game_state, last, ticks, loop, input_handler>>

\* lines 251-255
spiral_bottom_row_mut_unguarded ==
    /\ renderer.spiral.pc = "bottom_row"
    /\ LET sp == renderer.spiral
       IN  renderer' = [renderer EXCEPT !.spiral =
               [sp EXCEPT !.coords = @ \o AlongRow(RangeDown(sp.right, sp.left), sp.bottom),
                          !.bottom = @ - 1,
                          !.pc = "left_column"]]
    /\ UNCHANGED <<game_state, last, ticks, loop, input_handler>>

spiral_bottom_row ==
    /\ renderer.spiral.pc = "bottom_row"
    /\ LET sp == renderer.spiral
       IN  renderer' = [renderer EXCEPT !.spiral =
               IF sp.top <= sp.bottom
               THEN [sp EXCEPT !.coords = @ \o AlongRow(RangeDown(sp.right, sp.left), sp.bottom),
                               !.bottom = @ - 1,
                               !.pc = "left_column"]
               ELSE [sp EXCEPT !.pc = "left_column"]]
    /\ UNCHANGED <<game_state, last, ticks, loop, input_handler>>

\* lines 257-261
spiral_left_column ==
    /\ renderer.spiral.pc = "left_column"
    /\ LET sp == renderer.spiral
       IN  renderer' = [renderer EXCEPT !.spiral =
               IF sp.left <= sp.right
               THEN [sp EXCEPT !.coords = @ \o AlongColumn(sp.left, RangeDown(sp.bottom, sp.top)),
                               !.left = @ + 1,
                               !.pc = "while"]
               ELSE [sp EXCEPT !.pc = "while"]]
    /\ UNCHANGED <<game_state, last, ticks, loop, input_handler>>

\* _generate_spiral_coords_inside_out, line 271: the outside-in list reversed
spiral_reverse ==
    /\ renderer.spiral.pc = "outside_in_returned"
    /\ renderer' = [renderer EXCEPT
                       !.spiral.reversed = reversed(renderer.spiral.coords),
                       !.spiral.pc = "inside_out_returned"]
    /\ UNCHANGED <<game_state, last, ticks, loop, input_handler>>

NextSpiral ==
    \/ spiral_begin
    \/ spiral_while
    \/ spiral_top_row
    \/ spiral_right_column
    \/ spiral_bottom_row
    \/ spiral_left_column
    \/ spiral_reverse

SpecSpiral == InitIdle /\ [][NextSpiral]_vars

(* ------------------ renderer.py: the intro animation ------------------- *)

\* config.DEFAULT_ANIMATION_INTERVAL, in milliseconds.  renderer.py imports
\* the name but config.py does not define it; the values tried make the wait
\* after each face last one and two polls.
AnimationIntervals == {50, 100}

\* _play_face_animation, lines 75-81
face_animations ==
    <<"FACE_RIGHT", "FACE_LEFT", "FACE_RIGHT", "FACE_WINK", "FACE_RIGHT">>

\* play_intro_animation_loop is entered, lines 53-55
intro_begin ==
    /\ renderer.intro.pc = "idle"
    /\ \E interval \in AnimationIntervals :
           renderer' = [renderer EXCEPT !.intro =
                           [IdleIntro EXCEPT !.pc = "draw_face",
                                             !.interval = interval]]
    /\ UNCHANGED <<game_state, last, ticks, loop, input_handler>>

\* _play_face_animation, lines 82-84: the next face is drawn and the wait
\* after it begins (_wait_or_stop, lines 219-220)
intro_draw_face ==
    /\ renderer.intro.pc = "draw_face"
    /\ renderer' = [renderer EXCEPT
                       !.display = face_animations[renderer.intro.face],
                       !.intro.elapsed = 0,
                       !.intro.pc = "wait_test"]
    /\ UNCHANGED <<game_state, last, ticks, loop, input_handler>>

\* _wait_or_stop, lines 221-225, and _play_face_animation, lines 84-85:
\* should_stop() answers b; True ends the face animation at once
intro_wait_poll ==
    /\ renderer.intro.pc = "wait_test"
    /\ still_waiting(renderer.intro.elapsed, renderer.intro.interval)
    /\ Len(renderer.intro.polls) < MaxPolls
    /\ \E b \in BOOLEAN :
           renderer' = [renderer EXCEPT
                           !.intro.polls = Append(@, b),
                           !.intro.pc = IF b THEN "face_returned" ELSE @,
                           !.intro.should_start_game = b,
                           !.intro.elapsed =
                               IF b THEN @ ELSE @ + INPUT_POLL_INTERVAL]
    /\ UNCHANGED <<game_state, last, ticks, loop, input_handler>>

\* _wait_or_stop, lines 221 and 226, and _play_face_animation, lines 82-86:
\* the wait is over, the next face follows, or False after the last one
intro_wait_timeout ==
    /\ renderer.intro.pc = "wait_test"
    /\ ~still_waiting(renderer.intro.elapsed, renderer.intro.interval)
    /\ renderer' = [renderer EXCEPT
                       !.intro.face =
                           IF @ < Len(face_animations) THEN @ + 1 ELSE @,
                       !.intro.should_start_game = FALSE,
                       !.intro.pc =
                           IF renderer.intro.face < Len(face_animations)
                           THEN "draw_face" ELSE "face_returned"]
    /\ UNCHANGED <<game_state, last, ticks, loop, input_handler>>

\* play_intro_animation_loop, lines 55-58, and _play_spiral_fade_out, line
\* 93: break and start the fade-out with all 64 pixels, or play the faces
\* again from the first
intro_loop_mut_again ==
    /\ renderer.intro.pc = "face_returned"
    /\ renderer' = [renderer EXCEPT
                       !.intro.pc = "draw_face",
                       !.intro.face = 1]
    /\ UNCHANGED <<game_state, last, ticks, loop, input_handler>>

intro_loop ==
    /\ renderer.intro.pc = "face_returned"
    /\ renderer' = [renderer EXCEPT
                       !.intro.pc =
                           IF renderer.intro.should_start_game
                           THEN "fade_out" ELSE "draw_face",
                       !.intro.face =
                           IF renderer.intro.should_start_game THEN @ ELSE 1,
                       !.intro.lit_pixels =
                           IF renderer.intro.should_start_game
                           THEN grid_size * grid_size ELSE @]
    /\ UNCHANGED <<game_state, last, ticks, loop, input_handler>>

\* _play_spiral_fade_out, lines 95-98: the next coordinate of the spiral is
\* discarded and the pixels still lit are drawn
intro_fade_step ==
    /\ renderer.intro.pc = "fade_out"
    /\ renderer.intro.lit_pixels > 0
    /\ renderer' = [renderer EXCEPT
                       !.intro.lit_pixels = @ - 1,
                       !.display = "lit_pixels"]
    /\ UNCHANGED <<game_state, last, ticks, loop, input_handler>>

\* _play_spiral_fade_out, line 101: clear(); play_intro_animation_loop
\* returns after its last sleep
intro_fade_clear ==
    /\ renderer.intro.pc = "fade_out"
    /\ renderer.intro.lit_pixels = 0
    /\ renderer' = [renderer EXCEPT
                       !.intro.pc = "intro_returned",
                       !.display = "blank"]
    /\ UNCHANGED <<game_state, last, ticks, loop, input_handler>>

NextIntro ==
    \/ intro_begin
    \/ intro_draw_face
    \/ intro_wait_poll
    \/ intro_wait_timeout
    \/ intro_loop
    \/ intro_fade_step
    \/ intro_fade_clear

SpecIntro == InitIdle /\ [][NextIntro]_vars

(* ------------------------ vocabulary of the claims --------------------- *)

\* the unit vectors as the specification states them
ClaimedUnit(d) ==
    CASE d = "UP"    -> <<0, -1>>
      [] d = "DOWN"  -> <<0, 1>>
      [] d = "LEFT"  -> <<-1, 0>>
      [] d = "RIGHT" -> <<1, 0>>
      [] OTHER       -> <<0, 0>>

\* head + unit(d)
ClaimedNewHead(s, d) ==
    <<Head(s.snake_positions)[1] + ClaimedUnit(d)[1],
      Head(s.snake_positions)[2] + ClaimedUnit(d)[2]>>

\* the body a tick with heading d is specified to produce from s
ClaimedBody(s, d) ==
    IF ClaimedNewHead(s, d) = s.food_position
    THEN <<ClaimedNewHead(s, d)>> \o s.snake_positions
    ELSE <<ClaimedNewHead(s, d)>> \o pop(s.snake_positions)

\* this step is a run of move_snake's body
Ticked == last'.op = "move_snake" /\ ~last'.raised /\ ticks' = ticks + 1

\* this step is the call move_snake(d)
CalledWith(d) == last'.op = "move_snake" /\ last'.arg = d

InitialBody == << <<4, 4>>, <<4, 5>>, <<4, 6>> >>

AllInBounds(q) == \A i \in 1..Len(q) : q[i] \in Cells

NoDuplicates(q) == \A i, j \in 1..Len(q) : i # j => q[i] # q[j]

\* the head is on the edge of the grid that heading d points across
HeadOnEdgeFacing(s, d) == ClaimedNewHead(s, d) \notin Cells

(* ------------------------------ claims --------------------------------- *)

\* C1 (as stated): a tick applied to a non-terminated state with a real
\* direction d as input makes d the heading and produces the body
\* (old head + unit(d)) followed by the old body, without the old tail when
\* the new head is not on food.
C1_Original ==
    [][\A d \in RealDirection :
          (CalledWith(d) /\ ~game_state.game_over)
              => /\ game_state'.direction = d
                 /\ game_state'.snake_positions = ClaimedBody(game_state, d)]_vars

\* C2: on every tick whose new head equals the food position the body grows
\* by exactly one cell (the new head in front of the whole old body) and the
\* score increases by exactly 1.
C2_Growth ==
    [][(Ticked /\ ClaimedNewHead(game_state, game_state.direction) = game_state.food_position)
          => /\ Len(game_state'.snake_positions) = Len(game_state.snake_positions) + 1
             /\ game_state'.snake_positions =
                    <<game_state.food_position>> \o game_state.snake_positions
             /\ game_state'.score = game_state.score + 1]_vars

\* the specification's scenario: food at (4,3), one tick heading UP
C2_Witness ==
    /\ ticks = 1
    /\ last.op = "move_snake"
    /\ game_state.score = 1
    /\ game_state.snake_positions = << <<4, 3>>, <<4, 4>>, <<4, 5>>, <<4, 6>> >>

\* C3 (as stated): on every tick whose new head is not on the food the body
\* length is unchanged, whatever happened in earlier ticks.
C3_Original ==
    [][(Ticked /\ ClaimedNewHead(game_state, game_state.direction) # game_state.food_position)
          => Len(game_state'.snake_positions) = Len(game_state.snake_positions)]_vars

\* C4 (as stated): from the initial state a tick with input DOWN makes DOWN
\* the heading, moves the head to (4,5) and sets the termination flag.
C4_Original ==
    [][(/\ CalledWith("DOWN")
        /\ game_state.snake_positions = InitialBody
        /\ game_state.direction = "UP"
        /\ ~game_state.game_over)
          => /\ game_state'.direction = "DOWN"
             /\ Head(game_state'.snake_positions) = <<4, 5>>
             /\ game_state'.game_over]_vars

\* C5 (as stated): the heading is always a real direction, and a tick with
\* input NONE keeps the heading and moves the head one cell along it.
C5_Original ==
    /\ game_state.direction \in RealDirection
    /\ [][/\ game_state'.direction \in RealDirection
          /\ CalledWith("NONE")
                => /\ game_state'.direction = game_state.direction
                   /\ Head(game_state'.snake_positions) =
                          ClaimedNewHead(game_state, game_state.direction)]_vars

\* C6 (as stated): once the termination flag is true, a further transition
\* call leaves body, score and food position unchanged.
C6_Original ==
    [][(game_state.game_over /\ last'.op = "move_snake")
          => /\ game_state'.snake_positions = game_state.snake_positions
             /\ game_state'.score = game_state.score
             /\ game_state'.food_position = game_state.food_position]_vars

\* C7: a tick from a non-terminated state sets the termination flag exactly
\* when, after the head was prepended and the tail handled, the head equals
\* another body position; a head outside the grid does not set it.
C7_CollisionIff ==
    [][(Ticked /\ ~game_state.game_over)
          => (game_state'.game_over
                <=> Head(game_state'.snake_positions)
                        \in Range(Tail(game_state'.snake_positions)))]_vars

\* a tick has just detected a self collision
C7_Witness ==
    /\ ticks = 1
    /\ game_state.game_over
    /\ Head(game_state.snake_positions) \in Range(Tail(game_state.snake_positions))

\* C8: within a round, once the termination flag is true it stays true.
C8_StaysTerminated ==
    [][(game_state.game_over /\ last'.op # "reset") => game_state'.game_over]_vars

\* a later tick that does not itself collide has run in a terminated state
C8_Witness ==
    /\ game_state.game_over
    /\ ticks >= 2
    /\ Head(game_state.snake_positions) \notin Range(Tail(game_state.snake_positions))

\* C9: while the termination flag is false the body holds no position twice.
C9_NoDuplicates ==
    ~game_state.game_over => NoDuplicates(game_state.snake_positions)

\* a near miss: after a turn the head lies beside a body cell that is not its
\* neck, and the game goes on
C9_Witness ==
    /\ ~game_state.game_over
    /\ ticks >= 3
    /\ \E i \in 3..Len(game_state.snake_positions) :
           LET h == Head(game_state.snake_positions)
               c == game_state.snake_positions[i]
           IN  (h[1] - c[1]) * (h[1] - c[1]) + (h[2] - c[2]) * (h[2] - c[2]) = 1

\* C10 (as stated): every body position of every reachable state is inside
\* the 8x8 grid.
C10_Original == AllInBounds(game_state.snake_positions)

\* C10 (amended): the initial body is inside the grid, and a tick from a state
\* whose body is inside the grid leaves the grid exactly when the head is on
\* the edge its heading points across; such a tick does not end the game.
C10_BoundsUntilEdge ==
    /\ AllInBounds(game_state.snake_positions)
    /\ [][(Ticked /\ AllInBounds(game_state.snake_positions))
            => /\ AllInBounds(game_state'.snake_positions)
                    <=> ~HeadOnEdgeFacing(game_state, game_state.direction)
               /\ (HeadOnEdgeFacing(game_state, game_state.direction) /\ ~game_state.game_over)
                    => ~game_state'.game_over]_vars

\* the head has just walked across the right edge and the game goes on
C10_Witness ==
    /\ Head(game_state.snake_positions) = <<grid_size, 4>>
    /\ AllInBounds(Tail(game_state.snake_positions))
    /\ ~game_state.game_over

\* C11: right after every placement of food (at construction, at reset and
\* on every food-eating tick) the food is on no cell of the body as it then
\* is, new head included.
C11_FoodPlacement ==
    /\ game_state.food_position \notin Range(game_state.snake_positions)
    /\ [][(\/ Ticked /\ ClaimedNewHead(game_state, game_state.direction) = game_state.food_position
           \/ last'.op = "reset")
            => game_state'.food_position \notin Range(game_state'.snake_positions)]_vars

\* food has been placed again on two ticks, the second after a turn
C11_Witness ==
    /\ game_state.score = 2
    /\ game_state.food_eaten
    /\ game_state.direction # "UP"
    /\ game_state.food_position \notin Range(game_state.snake_positions)

\* C12: score starts at 0 and never decreases within a round; a tick whose
\* new head is not on food leaves score and food position unchanged; score
\* changes only by +1 and food moves only on a food-eating tick.
C12_ScoreFoodFrame ==
    /\ game_state.score = 0
    /\ [][last'.op # "reset"
            => /\ game_state'.score >= game_state.score
               /\ (Ticked /\ ClaimedNewHead(game_state, game_state.direction) # game_state.food_position)
                    => /\ game_state'.score = game_state.score
                       /\ game_state'.food_position = game_state.food_position
               /\ game_state'.score # game_state.score
                    => /\ Ticked
                       /\ ClaimedNewHead(game_state, game_state.direction) = game_state.food_position
                       /\ game_state'.score = game_state.score + 1
               /\ game_state'.food_position # game_state.food_position
                    => /\ Ticked
                       /\ ClaimedNewHead(game_state, game_state.direction) = game_state.food_position]_vars

\* a tick that did not eat has run after a tick that did
C12_Witness ==
    /\ game_state.score = 1
    /\ ticks >= 2
    /\ ~game_state.food_eaten

\* C20 (as stated): on every tick whose new head is not on food the tail is
\* removed before the collision check, so a head moving onto the cell the
\* tail occupied does not terminate the game.
C20_Original ==
    [][(/\ Ticked
        /\ ~game_state.game_over
        /\ ClaimedNewHead(game_state, game_state.direction) # game_state.food_position
        /\ ClaimedNewHead(game_state, game_state.direction)
               = game_state.snake_positions[Len(game_state.snake_positions)])
          => ~game_state'.game_over]_vars

\* C14 (as stated): every tick from a reachable non-terminated state
\* completes: whenever the tick eats the food, at least one cell of the grid
\* is not occupied by the body, so the rejection sampling of spawn_food ends.
C14_Original ==
    (~game_state.game_over /\ Eats(game_state))
        => FreeCells(prepend_head(game_state)) # {}

\* C13: every round starts from a freshly constructed state: body
\* [(4,4),(4,5),(4,6)], heading UP, score 0, not terminated, food on a cell
\* of the grid that is not in the body.
C13_FreshRound ==
    loop.pc = "first_frame"
        => /\ game_state.snake_positions = InitialBody
           /\ game_state.direction = "UP"
           /\ game_state.score = 0
           /\ ~game_state.game_over
           /\ game_state.food_position \in Cells
           /\ game_state.food_position \notin Range(game_state.snake_positions)

\* _play_game has just constructed the state of a round
C13_Witness ==
    /\ loop.pc = "first_frame"
    /\ last.op = "init"
    /\ game_state.food_position = <<7, 7>>

\* C15 (as stated): a frame is rendered before the first tick; each tick is
\* one poll, then one transition applying the polled direction, then one
\* frame render; the loop goes on exactly while the state is not terminated.
C15_Original ==
    [][/\ loop.pc = "first_frame"
            => loop'.pc = "loop_test" /\ renderer'.display = "frame"
       /\ loop.pc = "loop_test"
            => loop'.pc = IF game_state.game_over THEN "return" ELSE "poll"
       /\ loop.pc = "poll" => loop'.pc = "move"
       /\ loop.pc = "move" => loop'.pc = "render" /\ ~last'.raised
       /\ loop.pc = "render"
            => loop'.pc = "loop_test" /\ renderer'.display = "frame"]_vars

\* the last real direction of a sequence of samples, NONE when it has none
LastRealDirection(q) ==
    IF \A i \in 1..Len(q) : q[i] = "NONE"
    THEN "NONE"
    ELSE q[CHOOSE i \in 1..Len(q) :
               /\ q[i] # "NONE"
               /\ \A j \in (i + 1)..Len(q) : q[j] = "NONE"]

\* C16: poll_for_direction_input(timeout) takes a bounded number of samples,
\* one per poll interval until the window is over, and returns the last
\* sample that was not NONE, or NONE when every sample was NONE.
C16_PollResult ==
    /\ Len(input_handler.samples) * INPUT_POLL_INTERVAL
           <= input_handler.timeout + INPUT_POLL_INTERVAL
    /\ input_handler.pc = "poll_returned"
           => /\ input_handler.result = LastRealDirection(input_handler.samples)
              /\ Len(input_handler.samples) * INPUT_POLL_INTERVAL >= input_handler.timeout

\* the window of one game tick (GAME_SPEED = 0.5 s): a real direction was
\* sampled, every later sample was NONE, and the poll returned the real one
C16_Witness ==
    /\ input_handler.pc = "poll_returned"
    /\ input_handler.timeout = 500
    /\ Len(input_handler.samples) = 11
    /\ input_handler.samples[1] = "LEFT"
    /\ input_handler.samples[2] = "DOWN"
    /\ \A i \in 3..Len(input_handler.samples) : input_handler.samples[i] = "NONE"
    /\ input_handler.result = "DOWN"

\* an axis is inside the dead zone when it is within 0.1 of the centre 0.5
InDeadZone(v) == v >= 40 /\ v <= 60

\* C17: get_direction returns NONE exactly when both axes are inside the dead
\* zone; when x is outside it the result is LEFT (low x) or RIGHT (high x)
\* whatever y is; UP and DOWN are returned only with x inside the dead zone
\* and y below or above it.
C17_GetDirection ==
    input_handler.pc = "get_direction_returned"
        => LET x == input_handler.x
               y == input_handler.y
               d == input_handler.direction
           IN  /\ d = "NONE" <=> (InDeadZone(x) /\ InDeadZone(y))
               /\ ~InDeadZone(x) => d = IF x < 50 THEN "LEFT" ELSE "RIGHT"
               /\ d = "UP" => (InDeadZone(x) /\ y < 40)
               /\ d = "DOWN" => (InDeadZone(x) /\ y > 60)

\* both axes are outside the dead zone and the horizontal one wins
C17_Witness ==
    /\ input_handler.pc = "get_direction_returned"
    /\ input_handler.x = 100
    /\ input_handler.y = 0
    /\ input_handler.direction = "RIGHT"

\* the answers should_stop gave during the current call of _wait_or_stop
WaitPolls ==
    {renderer.polls[i] : i \in (renderer.wait_start + 1)..Len(renderer.polls)}

\* C18: the scrolling score does not return while every poll of should_stop
\* answered false; it returns at the first poll that answers true, and the
\* scroll position does not advance after that poll; _wait_or_stop returns
\* True exactly when one of its polls of should_stop answered true.
C18_CooperativeScroll ==
    LET n == Len(renderer.polls)
    IN  /\ renderer.pc = "scroll_returned" => (n > 0 /\ renderer.polls[n])
        /\ \A i \in 1..n :
               renderer.polls[i]
                   => /\ i = n
                      /\ renderer.pc \in {"after_wait", "scroll_returned"}
                      /\ renderer.wait_result
                      /\ renderer.offset = renderer.position
        /\ renderer.pc = "after_wait" => (renderer.wait_result <=> TRUE \in WaitPolls)

\* the score scrolled one pixel, then should_stop answered true and the call
\* returned with the viewport where that poll found it
C18_Witness ==
    /\ renderer.pc = "scroll_returned"
    /\ renderer.message_width = 3
    /\ renderer.scroll_speed = 100
    /\ renderer.polls = <<FALSE, FALSE, FALSE, TRUE>>
    /\ renderer.offset = 1
    /\ renderer.position = 1

\* C21 (as stated): in every state reachable by ticks from the initial state
\* the body length is the initial length plus the score.
C21_Original ==
    Len(game_state.snake_positions) = INITIAL_SNAKE_LENGTH + game_state.score

\* what a caller can read of a GameState besides the food
Observable(s) == <<s.snake_positions, s.direction, s.score, s.game_over>>

\* C22 (as stated): the first tick after reset() does what it does on a
\* freshly constructed GameState with the same food: nothing of the round
\* before, the food-eaten flag included, influences it.
C22_Original ==
    [][(last.op = "reset" /\ Ticked)
          => \E cell \in Cells :
                 Observable(game_state') =
                     Observable(move_snake_body(
                         GameState_init(FALSE, game_state.food_position), cell))]_vars

\* C23: in the initial state and after every completed tick the food is
\* inside the grid and on no cell of the body.
C23_FoodOffBody ==
    /\ game_state.food_position \in Cells
    /\ game_state.food_position \notin Range(game_state.snake_positions)

\* two ticks after a meal: the body has grown and moved on since the food was
\* placed, and the head has turned
C23_Witness ==
    /\ last.op = "move_snake"
    /\ ticks = 3
    /\ game_state.score = 1
    /\ ~game_state.food_eaten
    /\ game_state.direction = "LEFT"
    /\ Len(game_state.snake_positions) = 5
    /\ game_state.food_position \notin Range(game_state.snake_positions)

\* the cells of a width x height rectangle
Rectangle(width, height) == (0..(width - 1)) \X (0..(height - 1))

\* the ring of a cell: its distance to the nearest edge of the rectangle
Ring(c, width, height) ==
    LET Min(a, b) == IF a <= b THEN a ELSE b
    IN  Min(Min(c[1], width - 1 - c[1]), Min(c[2], height - 1 - c[2]))

\* two cells that share an edge
Adjacent(c, d) ==
    LET Abs(n) == IF n >= 0 THEN n ELSE 0 - n
    IN  Abs(c[1] - d[1]) + Abs(c[2] - d[2]) = 1

\* C24: for every width >= 1 and height >= 1 the outside-in spiral has
\* width * height coordinates, holds every cell of the rectangle exactly once,
\* begins at (0,0) and runs clockwise (rightwards along the top row first,
\* each cell next to the one before, never back to an outer ring); the
\* inside-out spiral is the same list reversed.
C24_Spiral ==
    LET sp == renderer.spiral
        q  == sp.coords
    IN  /\ sp.pc \in {"outside_in_returned", "inside_out_returned"}
            => /\ Len(q) = sp.width * sp.height
               /\ Range(q) = Rectangle(sp.width, sp.height)
               /\ NoDuplicates(q)
               /\ q[1] = <<0, 0>>
               /\ sp.width > 1 => q[2] = <<1, 0>>
               /\ \A i \in 1..(Len(q) - 1) :
                      /\ Adjacent(q[i], q[i + 1])
                      /\ Ring(q[i], sp.width, sp.height)
                             <= Ring(q[i + 1], sp.width, sp.height)
        /\ sp.pc = "inside_out_returned"
            => /\ Len(sp.reversed) = Len(q)
               /\ \A i \in 1..Len(q) : sp.reversed[i] = q[Len(q) + 1 - i]

\* the spirals of the 8x8 board: 64 cells, from the corner (0,0) to the
\* centre cell (3,4) and back
C24_Witness ==
    /\ renderer.spiral.pc = "inside_out_returned"
    /\ renderer.spiral.width = 8
    /\ renderer.spiral.height = 8
    /\ Len(renderer.spiral.coords) = 64
    /\ renderer.spiral.coords[64] = <<3, 4>>
    /\ renderer.spiral.reversed[1] = <<3, 4>>
    /\ renderer.spiral.reversed[64] = <<0, 0>>

\* the frames _play_face_animation draws
Faces == Range(face_animations)

\* should_stop has answered true during the intro
IntroStopped == TRUE \in Range(renderer.intro.polls)

\* C25: while every poll of should_stop answers false the intro keeps showing
\* faces and does not return; once a poll answers true no further face frame
\* is drawn, the spiral fade-out runs, and the call returns with the display
\* blank.
C25_Intro ==
    /\ [](/\ (renderer.intro.pc # "idle" /\ ~IntroStopped)
              => renderer.intro.pc \in {"draw_face", "wait_test", "face_returned"}
          /\ IntroStopped
              => /\ renderer.intro.polls[Len(renderer.intro.polls)]
                 /\ renderer.intro.pc \in {"face_returned", "fade_out", "intro_returned"}
          /\ renderer.intro.pc = "intro_returned"
              => /\ IntroStopped
                 /\ renderer.intro.lit_pixels = 0
                 /\ renderer.display = "blank")
    /\ [][IntroStopped
             => \/ renderer'.display = renderer.display
                \/ /\ renderer'.display \notin Faces
                   /\ renderer.intro.pc = "fade_out"]_vars

\* the five faces were shown once without a press, the button was pressed
\* during the first face of the second cycle, and the intro returned after
\* the fade-out
C25_Witness ==
    /\ renderer.intro.pc = "intro_returned"
    /\ renderer.intro.interval = 50
    /\ renderer.intro.polls = <<FALSE, FALSE, FALSE, FALSE, FALSE, TRUE>>
    /\ renderer.intro.face = 1
    /\ renderer.display = "blank"

\* the places of game_loop's endless `while True`: the intro, the play phase
\* of _play_game, and the game-over screen
RoundPhases ==
    {"intro", "play_game", "first_frame", "loop_test", "poll", "move",
     "render", "return", "game_over"}

\* C26 (as stated): game_loop repeats rounds forever in the order intro,
\* play, game-over screen: control never leaves the three phases of a round.
C26_Original == loop.pc \in RoundPhases

====
